---------------------------- MODULE Spec2Model ----------------------------
(***************************************************************************)
(* A model of the ingestion pipeline of MEDICAL-RAG (src/ingest.py): text  *)
(* normalisation (clean_text), sentence splitting (split_sentences), the   *)
(* sliding-window chunk builder (chunk_page_by_sentences) and the          *)
(* delete / read / chunk / embed / insert run of main() against the        *)
(* "chunks" table; and of the retrieval probe (src/test_embeddings.py)     *)
(* that searches the same table.                                           *)
(*                                                                         *)
(* A text is a sequence of one-character strings.                          *)
(***************************************************************************)
EXTENDS Naturals, Sequences, FiniteSets, Bags

VARIABLES
    raw,        \* clean_text: the argument t
    once,       \* clean_text(raw)
    twice,      \* clean_text(clean_text(raw))
    npc,        \* normaliser harness position: "in", "once", "twice"
    \* ---- chunk_page_by_sentences (one call of the generator)
    text,             \* the argument
    sents_per_chunk,  \* the argument (default SENTS_PER_CHUNK)
    overlap,          \* the argument (default SENT_OVERLAP)
    max_tokens,       \* the argument (default MAX_TOKENS)
    min_tokens,       \* the argument (default MIN_TOKENS)
    sents,            \* local: split_sentences(text)
    i,                \* local: 0-based start index of the window
    step,             \* local: max(1, sents_per_chunk - overlap)
    piece,            \* local: the window, trimmed from the tail
    chunks,           \* the chunks yielded so far, in order
    visited,          \* history: the candidate windows taken, before trimming
    settled,          \* history: what became of each window (kept part, yielded or not)
    iters,            \* history: how many times the loop body was entered
    kpc,              \* position: "call", "loop", "trim", "done"
    \* ---- the "chunks" table and the program's configuration
    table,            \* the rows of the table, a bag (a table holds no order)
    BATCH_EMBED,      \* line 23
    BATCH_INSERT,     \* line 24
    chunking,         \* lines 27-30: SENTS_PER_CHUNK, SENT_OVERLAP, MAX_TOKENS, MIN_TOKENS
    started,          \* how many times the program was started
    \* ---- one run of main() per process
    pc,               \* position in main()
    failed,           \* the stage whose call raised, "" if none
    PDF_PATH,         \* line 20
    DOC_ID,           \* line 21
    pages,            \* line 91
    inputs,           \* line 94
    metas,            \* line 94
    vectors,          \* line 106
    rows,             \* line 114
    ei,               \* line 108: the loop variable i
    j,                \* line 125
    \* ---- history of the current run of each process
    calls,            \* the external calls made, in order
    peers,            \* DOC_IDs of the runs that overlapped this one
    startRows,        \* the table's rows of DOC_ID when the run started
    endRows,          \* the table's rows of DOC_ID when the run ended
    prev,             \* the process's previous run: its file, doc_id, calls and end
    \* ---- the retrieval probe (test_embeddings.py), one run of its main()
    PROBE_PDF_PATH,   \* test_embeddings.py line 14: PDF_PATH, the filter's source
    qi,               \* line 30: the place in queries of the loop variable q
    e,                \* line 32: the query's embedding
    resp,             \* line 35: the response of the rpc
    hits,             \* line 41: rows
    shown,            \* what this run has printed for each query, and the index it searched
    before,           \* history: what the previous run of the probe had printed
    probes,           \* how many times the probe was started
    qfailed,          \* the call of the probe that raised, "" if none
    qpc               \* position in the probe: "idle", "embed", "search", "done", "failed"

ctVars == <<raw, once, twice, npc>>

cbVars == <<text, sents_per_chunk, overlap, max_tokens, min_tokens,
            sents, i, step, piece, chunks, visited, settled, iters, kpc>>

cfgVars == <<BATCH_EMBED, BATCH_INSERT, chunking>>

runVars == <<pc, failed, PDF_PATH, DOC_ID, pages, inputs, metas, vectors, rows, ei, j>>

histVars == <<calls, peers, startRows, endRows, prev>>

plVars == <<table, started, cfgVars, runVars, histVars>>

rpVars == <<PROBE_PDF_PATH, qi, e, resp, hits, shown, before, probes, qfailed, qpc>>

vars == <<ctVars, cbVars, plVars, rpVars>>

\* what the normaliser, the chunk builder, the pipeline and the probe do not
\* touch
ctOthers == <<cbVars, plVars, rpVars>>

cbOthers == <<ctVars, plVars, rpVars>>

plOthers == <<ctVars, cbVars, rpVars>>

rpOthers == <<ctVars, cbVars, plVars>>

---------------------------------------------------------------------------
(* Bounds of the model *)

\* longest raw text handed to clean_text
CleanMaxLen == 4

\* most sentences of a page text handed to the chunk builder
MaxSents == 3

\* largest sents_per_chunk and overlap tried
MaxSpc == 3

\* largest max_tokens tried (0 switches the ceiling off)
MaxTok == 3

\* largest min_tokens tried
MaxMin == 2

\* largest BATCH_EMBED and BATCH_INSERT tried
MaxBatch == 2

\* most starts of the program, over all processes
MaxRuns == 2

\* most starts of the retrieval probe
MaxProbes == 2

---------------------------------------------------------------------------
(* Characters *)

SP == " "
TAB == "\t"
NL == "\n"
CR == "\r"
HY == "-"

\* What Python's \s matches among the characters of the model.
IsSpace(c) == c \in {SP, TAB, NL, CR}

\* The characters of the raw texts given to clean_text.
CleanAlphabet == {"a", SP, TAB, NL, HY, CR}

RECURSIVE SeqsUpTo(_, _)
\* All sequences over S of length <= n.
SeqsUpTo(S, n) ==
    IF n = 0 THEN {<<>>}
    ELSE LET shorter == SeqsUpTo(S, n - 1)
         IN  shorter \cup {Append(s, c) : s \in {t \in shorter : Len(t) = n - 1}, c \in S}

\* t[a:b] of Python with 0-based a, b already clipped to 0..len(t): the
\* elements a+1 .. b of the 1-based sequence.
Slice(t, a, b) == IF b <= a THEN <<>> ELSE SubSeq(t, a + 1, b)

\* First index >= pos (1-based) of t that holds no whitespace character,
\* Len(t)+1 if there is none: the end of the maximal \s* run starting at pos.
RECURSIVE SpaceRunEnd(_, _)
SpaceRunEnd(t, pos) ==
    IF pos > Len(t) \/ ~IsSpace(t[pos]) THEN pos ELSE SpaceRunEnd(t, pos + 1)

\* First index >= pos of t that holds neither a space nor a tab.
RECURSIVE BlankRunEnd(_, _)
BlankRunEnd(t, pos) ==
    IF pos > Len(t) \/ t[pos] \notin {SP, TAB} THEN pos ELSE BlankRunEnd(t, pos + 1)

---------------------------------------------------------------------------
(* clean_text, statement by statement *)

\* t.replace(old, new) for single characters
ReplaceChar(t, old, new) == [k \in 1..Len(t) |-> IF t[k] = old THEN new ELSE t[k]]

\* re.sub(r"-\s*\n\s*", "", t), scanning from index pos.  At a hyphen the greedy
\* \s* takes the whole whitespace run after it and backtracks to the run's last
\* line break; the final \s* takes the rest of the run.  So the match is the
\* hyphen and the whole run, when the run holds a line break.
RECURSIVE JoinHyphenFrom(_, _)
JoinHyphenFrom(t, pos) ==
    IF pos > Len(t) THEN <<>>
    ELSE LET stop == SpaceRunEnd(t, pos + 1)
         IN  IF t[pos] = HY /\ \E k \in (pos + 1)..(stop - 1) : t[k] = NL
             THEN JoinHyphenFrom(t, stop)
             ELSE <<t[pos]>> \o JoinHyphenFrom(t, pos + 1)

JoinHyphen(t) == JoinHyphenFrom(t, 1)

\* re.sub(r"\s+\n", "\n", t), scanning from index pos.  From a whitespace
\* character the greedy \s+ takes the run and backtracks until a line break
\* follows it: the match ends at the last line break of the run that has at
\* least one whitespace character before it.
RECURSIVE TrimBeforeBreakFrom(_, _)
TrimBeforeBreakFrom(t, pos) ==
    IF pos > Len(t) THEN <<>>
    ELSE LET stop == SpaceRunEnd(t, pos)
             breaks == {k \in (pos + 1)..(stop - 1) : t[k] = NL}
         IN  IF IsSpace(t[pos]) /\ breaks # {}
             THEN LET last == CHOOSE k \in breaks : \A m \in breaks : m <= k
                  IN  <<NL>> \o TrimBeforeBreakFrom(t, last + 1)
             ELSE <<t[pos]>> \o TrimBeforeBreakFrom(t, pos + 1)

TrimBeforeBreak(t) == TrimBeforeBreakFrom(t, 1)

\* re.sub(r"[ \t]+", " ", t), scanning from index pos
RECURSIVE CollapseBlanksFrom(_, _)
CollapseBlanksFrom(t, pos) ==
    IF pos > Len(t) THEN <<>>
    ELSE IF t[pos] \in {SP, TAB}
         THEN <<SP>> \o CollapseBlanksFrom(t, BlankRunEnd(t, pos))
         ELSE <<t[pos]>> \o CollapseBlanksFrom(t, pos + 1)

CollapseBlanks(t) == CollapseBlanksFrom(t, 1)

\* str.strip(): leading and trailing whitespace removed
RECURSIVE StripRight(_)
StripRight(t) ==
    IF t # <<>> /\ IsSpace(t[Len(t)]) THEN StripRight(SubSeq(t, 1, Len(t) - 1)) ELSE t

Strip(t) == StripRight(SubSeq(t, SpaceRunEnd(t, 1), Len(t)))

clean_text(t) ==
    LET t1 == ReplaceChar(t, CR, SP)
        t2 == JoinHyphen(t1)
        t3 == TrimBeforeBreak(t2)
        t4 == CollapseBlanks(t3)
    IN  Strip(ReplaceChar(t4, NL, SP))

---------------------------------------------------------------------------
(* split_sentences *)

IsTerminal(c) == c \in {".", "!", "?"}

\* re.split(r'(?<=[.!?])\s+', t) scanning from index k with the current
\* fragment cur: a whitespace run that starts right after a terminal character
\* ends the fragment; every other character joins it.
RECURSIVE SplitFrom(_, _, _)
SplitFrom(t, k, cur) ==
    IF k > Len(t) THEN <<cur>>
    ELSE IF IsSpace(t[k]) /\ k > 1 /\ IsTerminal(t[k - 1])
         THEN <<cur>> \o SplitFrom(t, SpaceRunEnd(t, k), <<>>)
         ELSE SplitFrom(t, k + 1, Append(cur, t[k]))

\* [s.strip() for s in sents if s.strip()]
StripAll(ss) ==
    LET NonEmpty(s) == Strip(s) # <<>>
        kept == SelectSeq(ss, NonEmpty)
    IN  [k \in 1..Len(kept) |-> Strip(kept[k])]

split_sentences(t) == StripAll(SplitFrom(Strip(t), 1, <<>>))

\* " ".join(ss)
RECURSIVE JoinSpace(_)
JoinSpace(ss) ==
    IF ss = <<>> THEN <<>>
    ELSE IF Len(ss) = 1 THEN ss[1]
         ELSE ss[1] \o <<SP>> \o JoinSpace(Tail(ss))

---------------------------------------------------------------------------
(* The tokenizer.  enc is tiktoken's cl100k_base, a library outside the     *)
(* repository; what the code uses of it is len(enc.encode(s)).  It is       *)
(* modelled as a word-and-punctuation tokenizer: one token for each maximal *)
(* run of letters and one for each punctuation character, whitespace        *)
(* belonging to the token that follows it.                                  *)

IsPunct(c) == IsTerminal(c) \/ c = HY

IsLetter(c) == ~IsSpace(c) /\ ~IsPunct(c)

\* len(enc.encode(s))
TokenCount(s) ==
    Cardinality({k \in 1..Len(s) :
        \/ IsPunct(s[k])
        \/ IsLetter(s[k]) /\ (k = 1 \/ ~IsLetter(s[k - 1]))})

---------------------------------------------------------------------------
(* chunk_page_by_sentences *)

Min(a, b) == IF a <= b THEN a ELSE b

Max(a, b) == IF a >= b THEN a ELSE b

\* a step that forgets the overlap
StepOfNoOverlap(spc, ov) == IF spc > 0 THEN spc ELSE 1

\* a step that is not clamped to 1
StepOfUnclamped(spc, ov) == IF spc > ov THEN spc - ov ELSE 0

\* a step one sentence too long
StepOfOneMore(spc, ov) == IF spc > ov THEN spc - ov + 1 ELSE 1

\* step = max(1, sents_per_chunk - overlap); the difference may be negative
StepOf(spc, ov) == IF spc > ov THEN spc - ov ELSE 1

\* sents[i:i + sents_per_chunk]
Window(ss, start, spc) == Slice(ss, start, Min(start + spc, Len(ss)))

\* a trimming loop that stops at two sentences
TrimNeededAboveTwo(p, maxT) ==
    maxT # 0 /\ TokenCount(JoinSpace(p)) > maxT /\ Len(p) > 2

\* a trimming loop that also trims a window that fits exactly
TrimNeededWhenFull(p, maxT) ==
    maxT # 0 /\ TokenCount(JoinSpace(p)) >= maxT /\ Len(p) > 1

\* the condition of the trimming loop:
\* max_tokens and len(ids) > max_tokens and len(piece) > 1
TrimNeeded(p, maxT) ==
    maxT # 0 /\ TokenCount(JoinSpace(p)) > maxT /\ Len(p) > 1

\* a floor that is one token too low
EmitsOneBelow(p, minT) == TokenCount(JoinSpace(p)) + 1 >= minT

\* if len(ids) >= min_tokens
Emits(p, minT) == TokenCount(JoinSpace(p)) >= minT

\* The page texts given to the chunk builder: sentences of the pool joined by
\* single spaces, as clean_text leaves a page of prose.  The pool holds a
\* sentence of one token and a sentence of three, so that a window of several
\* sentences can fit max_tokens exactly, fit after losing part of its tail, or
\* not fit at all.
SentencePool == {<<"?">>, <<"b", " ", "c", "!">>}

ChunkTexts == {JoinSpace(ss) : ss \in SeqsUpTo(SentencePool, MaxSents)}

\* the chunk builder is not called
ChunkIdle ==
    /\ text = <<>>
    /\ sents_per_chunk = 0
    /\ overlap = 0
    /\ max_tokens = 0
    /\ min_tokens = 0
    /\ sents = <<>>
    /\ i = 0
    /\ step = 0
    /\ piece = <<>>
    /\ chunks = <<>>
    /\ visited = <<>>
    /\ settled = <<>>
    /\ iters = 0
    /\ kpc = "idle"

\* before the call
ChunkInit ==
    /\ text = <<>>
    /\ sents_per_chunk = 0
    /\ overlap = 0
    /\ max_tokens = 0
    /\ min_tokens = 0
    /\ sents = <<>>
    /\ i = 0
    /\ step = 0
    /\ piece = <<>>
    /\ chunks = <<>>
    /\ visited = <<>>
    /\ settled = <<>>
    /\ iters = 0
    /\ kpc = "call"

\* The call chunk_page_by_sentences(t, spc, ov, maxT, minT) and the generator's
\* first statements, lines 53-55.
ChunkCall(t, spc, ov, maxT, minT) ==
    /\ kpc = "call"
    /\ text' = t
    /\ sents_per_chunk' = spc
    /\ overlap' = ov
    /\ max_tokens' = maxT
    /\ min_tokens' = minT
    /\ sents' = split_sentences(t)
    /\ i' = 0
    /\ step' = StepOf(spc, ov)
    /\ kpc' = "loop"
    /\ UNCHANGED <<piece, chunks, visited, settled, iters>>
    /\ UNCHANGED cbOthers

ChunkEnter ==
    /\ kpc = "call"
    /\ \E t \in ChunkTexts, spc \in 0..MaxSpc, ov \in 0..MaxSpc,
          maxT \in 0..MaxTok, minT \in 0..MaxMin :
           ChunkCall(t, spc, ov, maxT, minT)

\* lines 56-60: the loop test holds and the window is not empty
LoopTake ==
    /\ kpc = "loop"
    /\ i < Len(sents)
    /\ Window(sents, i, sents_per_chunk) # <<>>
    /\ piece' = Window(sents, i, sents_per_chunk)
    /\ visited' = Append(visited, [start |-> i, window |-> piece'])
    /\ iters' = iters + 1
    /\ kpc' = "trim"
    /\ UNCHANGED <<text, sents_per_chunk, overlap, max_tokens, min_tokens,
                   sents, i, step, chunks, settled>>
    /\ UNCHANGED cbOthers

\* lines 58-59: if not piece: break
LoopBreak ==
    /\ kpc = "loop"
    /\ i < Len(sents)
    /\ Window(sents, i, sents_per_chunk) = <<>>
    /\ iters' = iters + 1
    /\ kpc' = "done"
    /\ UNCHANGED <<text, sents_per_chunk, overlap, max_tokens, min_tokens,
                   sents, i, step, piece, chunks, visited, settled>>
    /\ UNCHANGED cbOthers

\* line 56: the loop test fails
LoopExit ==
    /\ kpc = "loop"
    /\ i >= Len(sents)
    /\ kpc' = "done"
    /\ UNCHANGED <<text, sents_per_chunk, overlap, max_tokens, min_tokens,
                   sents, i, step, piece, chunks, visited, settled, iters>>
    /\ UNCHANGED cbOthers

\* lines 64-67: one pass of the trimming loop
TrimTail ==
    /\ kpc = "trim"
    /\ TrimNeeded(piece, max_tokens)
    /\ piece' = SubSeq(piece, 1, Len(piece) - 1)
    /\ UNCHANGED <<text, sents_per_chunk, overlap, max_tokens, min_tokens,
                   sents, i, step, chunks, visited, kpc, settled, iters>>
    /\ UNCHANGED cbOthers

\* lines 69-71: the chunk is yielded and the window advances
EmitChunk ==
    /\ kpc = "trim"
    /\ ~TrimNeeded(piece, max_tokens)
    /\ Emits(piece, min_tokens)
    /\ chunks' = Append(chunks, JoinSpace(piece))
    /\ settled' = Append(settled, [start |-> i, kept |-> piece, yielded |-> TRUE])
    /\ i' = i + step
    /\ kpc' = "loop"
    /\ UNCHANGED <<text, sents_per_chunk, overlap, max_tokens, min_tokens,
                   sents, step, piece, visited, iters>>
    /\ UNCHANGED cbOthers

\* lines 69, 71: the chunk is below min_tokens; the window advances
DropChunk ==
    /\ kpc = "trim"
    /\ ~TrimNeeded(piece, max_tokens)
    /\ ~Emits(piece, min_tokens)
    /\ settled' = Append(settled, [start |-> i, kept |-> piece, yielded |-> FALSE])
    /\ i' = i + step
    /\ kpc' = "loop"
    /\ UNCHANGED <<text, sents_per_chunk, overlap, max_tokens, min_tokens,
                   sents, step, piece, chunks, visited, iters>>
    /\ UNCHANGED cbOthers

ChunkNext ==
    \/ ChunkEnter
    \/ LoopTake
    \/ LoopBreak
    \/ LoopExit
    \/ TrimTail
    \/ EmitChunk
    \/ DropChunk

---------------------------------------------------------------------------
(* chunk_page_by_sentences as a function: the chunks one call yields *)

\* lines 64-67 run to their end
RECURSIVE TrimToFit(_, _)
TrimToFit(p, maxT) ==
    IF TrimNeeded(p, maxT) THEN TrimToFit(SubSeq(p, 1, Len(p) - 1), maxT) ELSE p

\* lines 56-71 from start index `start` on
RECURSIVE ChunksFrom(_, _, _, _, _, _)
ChunksFrom(ss, start, spc, ov, maxT, minT) ==
    IF start >= Len(ss) \/ Window(ss, start, spc) = <<>> THEN <<>>
    ELSE LET kept == TrimToFit(Window(ss, start, spc), maxT)
         IN  (IF Emits(kept, minT) THEN <<JoinSpace(kept)>> ELSE <<>>)
                 \o ChunksFrom(ss, start + StepOf(spc, ov), spc, ov, maxT, minT)

chunk_page_by_sentences(t, spc, ov, maxT, minT) ==
    ChunksFrom(split_sentences(t), 0, spc, ov, maxT, minT)

---------------------------------------------------------------------------
(* The collaborators of main(): the PDF files, the embedding service, the   *)
(* "chunks" table                                                           *)

Procs == {"p1", "p2"}

DocIds == {"d1", "d2"}

Paths == {"a.pdf", "b.pdf"}

\* The raw text of each page of each file, as fitz returns it.
\* a.pdf: "a.\nb c!" / "\r\n" (a blank page) / "d-\ne."    b.pdf: "g h!\ti.  k?"
Files ==
    [path \in Paths |->
        IF path = "a.pdf"
        THEN << <<"a", ".", NL, "b", SP, "c", "!">>,
                <<CR, NL>>,
                <<"d", HY, NL, "e", ".">> >>
        ELSE << <<"g", SP, "h", "!", TAB, "i", ".", SP, SP, "k", "?">> >>]

\* The settings of lines 27-30 tried.  The repository's own values (20, 2,
\* 1300, 50) need pages of hundreds of tokens; these are the same settings at
\* the scale of the files above: a window of two sentences with an overlap of
\* one, a ceiling and a floor that both bite; and one sentence per chunk with
\* the ceiling off and no floor.
Chunkings ==
    { [sents_per_chunk |-> 2, overlap |-> 1, max_tokens |-> 4, min_tokens |-> 3],
      [sents_per_chunk |-> 1, overlap |-> 0, max_tokens |-> 0, min_tokens |-> 0] }

\* The embedding one text gets from the service: a vector of fixed dimension
\* that depends on the text alone.
EmbedOf(content) == <<TokenCount(content), Len(content)>>

\* client.embeddings.create(model=EMBED_MODEL, input=batch), then
\* [d.embedding for d in resp.data]: one vector per text, in the order given
Embed(batch) == [k \in 1..Len(batch) |-> EmbedOf(batch[k])]

\* the rows of the table whose doc_id is d
RowsOf(t, d) == [r \in {x \in DOMAIN t : x.doc_id = d} |-> t[r]]

\* a delete that removes nothing
DeleteNothing(t, d) == t

\* a delete without its doc_id filter
DeleteEverything(t, d) == EmptyBag

\* a delete whose filter is turned around: .neq("doc_id", d)
DeleteOtherDocs(t, d) == [r \in {x \in DOMAIN t : x.doc_id = d} |-> t[r]]

\* .delete().eq("doc_id", d): every row of doc_id d goes
DeleteDoc(t, d) == [r \in {x \in DOMAIN t : x.doc_id # d} |-> t[r]]

RECURSIVE BagOfSeq(_)
BagOfSeq(rs) == IF rs = <<>> THEN EmptyBag ELSE SetToBag({Head(rs)}) (+) BagOfSeq(Tail(rs))

\* an insert that loses the last row of the batch
InsertRowsButLast(t, rs) == t (+) BagOfSeq(SubSeq(rs, 1, Len(rs) - 1))

\* an upsert on (doc_id, chunk_index): a row given replaces the rows stored
\* under its key
InsertRowsUpsert(t, rs) ==
    LET given == {<<rs[k].doc_id, rs[k].chunk_index>> : k \in 1..Len(rs)}
    IN  [r \in {x \in DOMAIN t : <<x.doc_id, x.chunk_index>> \notin given} |-> t[r]]
            (+) BagOfSeq(rs)

\* .insert(rs): the rows are added; the table has no uniqueness rule the code
\* relies on
InsertRows(t, rs) == t (+) BagOfSeq(rs)

OldRow(d, idx) ==
    [doc_id |-> d, chunk_index |-> idx, content |-> <<"o", ".">>,
     metadata |-> [page |-> 1, source |-> "old.pdf"], embedding |-> <<2, 2>>]

\* What the table may hold before the first run: nothing, or rows of earlier
\* ingestions (of d1 with a duplicate and a gap, and of d2).
InitialTables ==
    { EmptyBag,
      SetToBag({OldRow("d1", 0), OldRow("d1", 5), OldRow("d2", 0)})
          (+) SetToBag({OldRow("d1", 0)}) }

---------------------------------------------------------------------------
(* main(), statement by statement *)

\* a slice one element short: xs[off:off + size - 1]
BatchShort(xs, off, size) == Slice(xs, off, Min(off + size - 1, Len(xs)))

\* xs[off:off + size]
Batch(xs, off, size) == Slice(xs, off, Min(off + size, Len(xs)))

\* pages numbered from 0: (i, clean_text(txt))
pdf_pagesFromZero(path) ==
    [k \in 1..Len(Files[path]) |-> [page |-> k - 1, text |-> clean_text(Files[path][k])]]

\* list(pdf_pages(path)): (page number from 1, clean_text of the page's text)
pdf_pages(path) ==
    [k \in 1..Len(Files[path]) |-> [page |-> k, text |-> clean_text(Files[path][k])]]

\* lines 96-101 from page k on: (chunk, meta) pairs in page order; a page
\* without text is skipped
RECURSIVE BuildFrom(_, _, _, _)
BuildFrom(pgs, k, path, c) ==
    IF k > Len(pgs) THEN <<>>
    ELSE LET cs == IF pgs[k].text = <<>> THEN <<>>
                   ELSE chunk_page_by_sentences(pgs[k].text, c.sents_per_chunk,
                            c.overlap, c.max_tokens, c.min_tokens)
         IN  [m \in 1..Len(cs) |->
                 [content |-> cs[m],
                  meta |-> [page |-> pgs[k].page, source |-> path]]]
             \o BuildFrom(pgs, k + 1, path, c)

\* rows numbered from 1: enumerate(..., start=1)
PrepareRowsFromOne(d, ins, vecs, ms) ==
    [k \in 1..Min(Len(ins), Min(Len(vecs), Len(ms))) |->
        [doc_id |-> d, chunk_index |-> k, content |-> ins[k],
         metadata |-> ms[k], embedding |-> vecs[k]]]

\* rows that carry a fixed doc_id instead of DOC_ID
PrepareRowsFixedDoc(d, ins, vecs, ms) ==
    [k \in 1..Min(Len(ins), Min(Len(vecs), Len(ms))) |->
        [doc_id |-> "d1", chunk_index |-> k - 1, content |-> ins[k],
         metadata |-> ms[k], embedding |-> vecs[k]]]

\* lines 114-122: enumerate(zip(inputs, vectors, metas))
PrepareRows(d, ins, vecs, ms) ==
    [k \in 1..Min(Len(ins), Min(Len(vecs), Len(ms))) |->
        [doc_id |-> d, chunk_index |-> k - 1, content |-> ins[k],
         metadata |-> ms[k], embedding |-> vecs[k]]]

Running(q) == pc[q] \notin {"idle", "done", "failed"}

\* the chunk_index values of a batch of rows, as the call log keeps them
IndexesOf(rs) == [k \in 1..Len(rs) |-> rs[k].chunk_index]

Call(o, a, r, k) == [op |-> o, arg |-> a, ret |-> r, ok |-> k]

NoRun == [path |-> "", doc_id |-> "", rows |-> EmptyBag, ok |-> FALSE, failed |-> "",
          calls |-> <<>>]

PipelineIdle ==
    /\ table = EmptyBag
    /\ BATCH_EMBED = 0
    /\ BATCH_INSERT = 0
    /\ chunking = [sents_per_chunk |-> 0, overlap |-> 0, max_tokens |-> 0, min_tokens |-> 0]
    /\ started = 0
    /\ pc = [p \in Procs |-> "idle"]
    /\ failed = [p \in Procs |-> ""]
    /\ PDF_PATH = [p \in Procs |-> ""]
    /\ DOC_ID = [p \in Procs |-> ""]
    /\ pages = [p \in Procs |-> <<>>]
    /\ inputs = [p \in Procs |-> <<>>]
    /\ metas = [p \in Procs |-> <<>>]
    /\ vectors = [p \in Procs |-> <<>>]
    /\ rows = [p \in Procs |-> <<>>]
    /\ ei = [p \in Procs |-> 0]
    /\ j = [p \in Procs |-> 0]
    /\ calls = [p \in Procs |-> <<>>]
    /\ peers = [p \in Procs |-> {}]
    /\ startRows = [p \in Procs |-> EmptyBag]
    /\ endRows = [p \in Procs |-> EmptyBag]
    /\ prev = [p \in Procs |-> NoRun]

\* The values of BATCH_EMBED and BATCH_INSERT (lines 23-24) tried: one item
\* per call, and the largest batch.
BatchSizes == {1, MaxBatch}

PipelineInit ==
    /\ table \in InitialTables
    /\ BATCH_EMBED \in BatchSizes
    /\ BATCH_INSERT \in BatchSizes
    /\ chunking \in Chunkings
    /\ started = 0
    /\ pc = [p \in Procs |-> "idle"]
    /\ failed = [p \in Procs |-> ""]
    /\ PDF_PATH = [p \in Procs |-> ""]
    /\ DOC_ID = [p \in Procs |-> ""]
    /\ pages = [p \in Procs |-> <<>>]
    /\ inputs = [p \in Procs |-> <<>>]
    /\ metas = [p \in Procs |-> <<>>]
    /\ vectors = [p \in Procs |-> <<>>]
    /\ rows = [p \in Procs |-> <<>>]
    /\ ei = [p \in Procs |-> 0]
    /\ j = [p \in Procs |-> 0]
    /\ calls = [p \in Procs |-> <<>>]
    /\ peers = [p \in Procs |-> {}]
    /\ startRows = [p \in Procs |-> EmptyBag]
    /\ endRows = [p \in Procs |-> EmptyBag]
    /\ prev = [p \in Procs |-> NoRun]

\* The program is started (again) by process p with PDF_PATH = path and
\* DOC_ID = d: lines 20-21 and 84-85.
Start(p, path, d) ==
    /\ pc[p] \in {"idle", "done", "failed"}
    /\ started < MaxRuns
    /\ started' = started + 1
    /\ pc' = [pc EXCEPT ![p] = "delete"]
    /\ failed' = [failed EXCEPT ![p] = ""]
    /\ PDF_PATH' = [PDF_PATH EXCEPT ![p] = path]
    /\ DOC_ID' = [DOC_ID EXCEPT ![p] = d]
    /\ pages' = [pages EXCEPT ![p] = <<>>]
    /\ inputs' = [inputs EXCEPT ![p] = <<>>]
    /\ metas' = [metas EXCEPT ![p] = <<>>]
    /\ vectors' = [vectors EXCEPT ![p] = <<>>]
    /\ rows' = [rows EXCEPT ![p] = <<>>]
    /\ ei' = [ei EXCEPT ![p] = 0]
    /\ j' = [j EXCEPT ![p] = 0]
    /\ calls' = [calls EXCEPT ![p] = <<>>]
    /\ peers' = [q \in Procs |->
                    IF q = p THEN {DOC_ID[r] : r \in {x \in Procs \ {p} : Running(x)}}
                    ELSE IF Running(q) THEN peers[q] \cup {d}
                    ELSE peers[q]]
    /\ startRows' = [startRows EXCEPT ![p] = RowsOf(table, d)]
    /\ endRows' = [endRows EXCEPT ![p] = EmptyBag]
    /\ prev' = [prev EXCEPT ![p] =
                   IF pc[p] = "idle" THEN NoRun
                   ELSE [path |-> PDF_PATH[p], doc_id |-> DOC_ID[p], rows |-> endRows[p],
                         ok |-> pc[p] = "done" /\ DOC_ID[p] \notin peers[p],
                         failed |-> failed[p], calls |-> calls[p]]]
    /\ UNCHANGED <<table, cfgVars>>
    /\ UNCHANGED plOthers

\* A call of the run raised: the exception is not caught and the run is over.
Raise(p, stage, call) ==
    /\ pc' = [pc EXCEPT ![p] = "failed"]
    /\ failed' = [failed EXCEPT ![p] = stage]
    /\ calls' = [calls EXCEPT ![p] = Append(@, call)]
    /\ endRows' = [endRows EXCEPT ![p] = RowsOf(table, DOC_ID[p])]
    /\ UNCHANGED <<table, started, cfgVars, PDF_PATH, DOC_ID, pages, inputs, metas,
                   vectors, rows, ei, j, peers, startRows, prev>>
    /\ UNCHANGED plOthers

\* line 88: sb.table("chunks").delete().eq("doc_id", DOC_ID).execute(); the
\* call log keeps how many rows the delete removed
Delete(p) ==
    /\ pc[p] = "delete"
    /\ table' = DeleteDoc(table, DOC_ID[p])
    /\ pc' = [pc EXCEPT ![p] = "read"]
    /\ calls' = [calls EXCEPT ![p] =
                    Append(@, Call("delete", <<DOC_ID[p]>>,
                                   <<BagCardinality(RowsOf(table, DOC_ID[p]))>>, TRUE))]
    /\ UNCHANGED <<started, cfgVars, failed, PDF_PATH, DOC_ID, pages, inputs, metas,
                   vectors, rows, ei, j, peers, startRows, endRows, prev>>
    /\ UNCHANGED plOthers

\* line 88 raises
DeleteFail(p) ==
    /\ pc[p] = "delete"
    /\ Raise(p, "delete", Call("delete", <<DOC_ID[p]>>, <<>>, FALSE))

\* line 91: pages = list(pdf_pages(PDF_PATH))
ReadPdf(p) ==
    /\ pc[p] = "read"
    /\ pages' = [pages EXCEPT ![p] = pdf_pages(PDF_PATH[p])]
    /\ pc' = [pc EXCEPT ![p] = "chunk"]
    /\ calls' = [calls EXCEPT ![p] = Append(@, Call("read", <<PDF_PATH[p]>>, <<>>, TRUE))]
    /\ UNCHANGED <<table, started, cfgVars, failed, PDF_PATH, DOC_ID, inputs, metas,
                   vectors, rows, ei, j, peers, startRows, endRows, prev>>
    /\ UNCHANGED plOthers

\* line 91 raises: fitz cannot open or read the file
ReadFail(p) ==
    /\ pc[p] = "read"
    /\ Raise(p, "extraction", Call("read", <<PDF_PATH[p]>>, <<>>, FALSE))

\* lines 94-101: inputs and metas are built from the pages
BuildChunks(p) ==
    /\ pc[p] = "chunk"
    /\ LET built == BuildFrom(pages[p], 1, PDF_PATH[p], chunking)
       IN  /\ inputs' = [inputs EXCEPT ![p] = [k \in 1..Len(built) |-> built[k].content]]
           /\ metas' = [metas EXCEPT ![p] = [k \in 1..Len(built) |-> built[k].meta]]
    /\ vectors' = [vectors EXCEPT ![p] = <<>>]
    /\ ei' = [ei EXCEPT ![p] = 0]
    /\ pc' = [pc EXCEPT ![p] = "embed"]
    /\ UNCHANGED <<table, started, cfgVars, failed, PDF_PATH, DOC_ID, pages,
                   rows, j, histVars>>
    /\ UNCHANGED plOthers

\* lines 108-111: one pass of the embedding loop
EmbedBatch(p) ==
    /\ pc[p] = "embed"
    /\ ei[p] < Len(inputs[p])
    /\ LET batch == Batch(inputs[p], ei[p], BATCH_EMBED)
       IN  /\ vectors' = [vectors EXCEPT ![p] = @ \o Embed(batch)]
           /\ calls' = [calls EXCEPT ![p] = Append(@, Call("embed", batch, Embed(batch), TRUE))]
    /\ ei' = [ei EXCEPT ![p] = @ + BATCH_EMBED]
    /\ UNCHANGED <<table, started, cfgVars, pc, failed, PDF_PATH, DOC_ID, pages, inputs,
                   metas, rows, j, peers, startRows, endRows, prev>>
    /\ UNCHANGED plOthers

\* line 110 raises
EmbedFail(p) ==
    /\ pc[p] = "embed"
    /\ ei[p] < Len(inputs[p])
    /\ Raise(p, "embedding",
             Call("embed", Batch(inputs[p], ei[p], BATCH_EMBED), <<>>, FALSE))

\* lines 114-122, after the last pass of the embedding loop
BuildRows(p) ==
    /\ pc[p] = "embed"
    /\ ei[p] >= Len(inputs[p])
    /\ rows' = [rows EXCEPT ![p] = PrepareRows(DOC_ID[p], inputs[p], vectors[p], metas[p])]
    /\ j' = [j EXCEPT ![p] = 0]
    /\ pc' = [pc EXCEPT ![p] = "upload"]
    /\ UNCHANGED <<table, started, cfgVars, failed, PDF_PATH, DOC_ID, pages, inputs,
                   metas, vectors, ei, histVars>>
    /\ UNCHANGED plOthers

\* lines 125-126: one pass of the upload loop
InsertBatch(p) ==
    /\ pc[p] = "upload"
    /\ j[p] < Len(rows[p])
    /\ LET batch == Batch(rows[p], j[p], BATCH_INSERT)
       IN  /\ table' = InsertRows(table, batch)
           /\ calls' = [calls EXCEPT ![p] = Append(@, Call("insert", IndexesOf(batch), <<>>, TRUE))]
    /\ j' = [j EXCEPT ![p] = @ + BATCH_INSERT]
    /\ UNCHANGED <<started, cfgVars, pc, failed, PDF_PATH, DOC_ID, pages, inputs,
                   metas, vectors, rows, ei, peers, startRows, endRows, prev>>
    /\ UNCHANGED plOthers

\* line 126 raises
InsertFail(p) ==
    /\ pc[p] = "upload"
    /\ j[p] < Len(rows[p])
    /\ Raise(p, "persistence",
             Call("insert", IndexesOf(Batch(rows[p], j[p], BATCH_INSERT)), <<>>, FALSE))

\* line 128: the upload loop is over and the run reports "Done"
Finish(p) ==
    /\ pc[p] = "upload"
    /\ j[p] >= Len(rows[p])
    /\ pc' = [pc EXCEPT ![p] = "done"]
    /\ endRows' = [endRows EXCEPT ![p] = RowsOf(table, DOC_ID[p])]
    /\ UNCHANGED <<table, started, cfgVars, failed, PDF_PATH, DOC_ID, pages, inputs,
                   metas, vectors, rows, ei, j, calls, peers, startRows, prev>>
    /\ UNCHANGED plOthers

\* the statements of a run that has started
Step(p) ==
    \/ Delete(p)
    \/ DeleteFail(p)
    \/ ReadPdf(p)
    \/ ReadFail(p)
    \/ BuildChunks(p)
    \/ EmbedBatch(p)
    \/ EmbedFail(p)
    \/ BuildRows(p)
    \/ InsertBatch(p)
    \/ InsertFail(p)
    \/ Finish(p)

\* One process runs the program, and when a run is over may run it again.
Next ==
    \E p \in {"p1"} :
        \/ \E path \in Paths, d \in DocIds : Start(p, path, d)
        \/ Step(p)

\* Two processes run the program once each, at the same time.
ConcurrentNext ==
    \E p \in Procs :
        \/ \E path \in Paths, d \in DocIds :
              /\ pc[p] = "idle"
              /\ p = "p2" => pc["p1"] # "idle"    \* the process that starts first is called p1
              /\ Start(p, path, d)
        \/ Step(p)

---------------------------------------------------------------------------
(* The retrieval probe: main() of test_embeddings.py, statement by statement. *)
(* The rpc "match_documents" it calls is a function stored in the database,  *)
(* not in the repository's files; it is modelled from the specification's    *)
(* search(query_embedding, top_k, metadata_filter): the stored rows that     *)
(* meet the equality filter, ranked by descending similarity, at most top_k. *)

\* test_embeddings.py line 15
TOP_K == 3

\* test_embeddings.py lines 17-24: the texts asked; here three, the last the
\* same text as the first
queries == << <<"b", " ", "c">>, <<"k", "?">>, <<"b", " ", "c">> >>

Dist(a, b) == IF a >= b THEN a - b ELSE b - a

\* the similarity of a stored embedding u to the query embedding v: the
\* closer, the larger
Similarity(u, v) == 100 - (Dist(u[1], v[1]) + Dist(u[2], v[2]))

\* the row meets the equality filter: every key of the filter is a key of the
\* row's metadata, with the filter's value
MeetsFilter(r, filter) ==
    \A key \in DOMAIN filter :
        key \in DOMAIN r.metadata /\ r.metadata[key] = filter[key]

\* the rows of t that meet the filter
Candidates(t, filter) == [r \in {x \in DOMAIN t : MeetsFilter(x, filter)} |-> t[r]]

\* x ranks before r for the query embedding v: more similar, and among equally
\* similar rows the smaller chunk_index
RanksBefore(x, r, v) ==
    \/ Similarity(x.embedding, v) > Similarity(r.embedding, v)
    \/ /\ Similarity(x.embedding, v) = Similarity(r.embedding, v)
       /\ x.chunk_index < r.chunk_index

\* the first k rows of the bag b in ranking order, as the search returns them
RECURSIVE Ranked(_, _, _)
Ranked(b, v, k) ==
    IF k = 0 \/ DOMAIN b = {} THEN <<>>
    ELSE LET best == CHOOSE r \in DOMAIN b : \A x \in DOMAIN b : ~RanksBefore(x, r, v)
         IN  << [content |-> best.content, metadata |-> best.metadata,
                 chunk_index |-> best.chunk_index,
                 similarity |-> Similarity(best.embedding, v)] >>
                 \o Ranked(b (-) SetToBag({best}), v, k - 1)

\* the rpc: match_documents(query_embedding, match_count, filter)
match_documents(t, query_embedding, match_count, filter) ==
    Ranked(Candidates(t, filter), query_embedding, match_count)

\* a filter that constrains nothing
ProbeFilterNone(path) == [key \in {} |-> path]

\* line 38: "filter": {"source": PDF_PATH}
ProbeFilter(path) == [source |-> path]

\* rows that pile up over the queries: rows.extend(resp.data or [])
NextHitsPiledUp(old, r) == old \o (IF r.none THEN <<>> ELSE r.data)

\* line 41: rows = resp.data or []
NextHits(old, r) == IF r.none THEN <<>> ELSE r.data

\* What execute() may answer with the rows found: the rows, and for no rows
\* an empty list or no data at all.
Responses(found) ==
    IF found = <<>> THEN {[data |-> <<>>, none |-> FALSE], [data |-> <<>>, none |-> TRUE]}
    ELSE {[data |-> found, none |-> FALSE]}

NoResp == [data |-> <<>>, none |-> TRUE]

\* the probe does not run
ProbeIdle ==
    /\ PROBE_PDF_PATH = ""
    /\ qi = 0
    /\ e = <<>>
    /\ resp = NoResp
    /\ hits = <<>>
    /\ shown = <<>>
    /\ before = <<>>
    /\ probes = 0
    /\ qfailed = ""
    /\ qpc = "idle"

\* The probe is started (again) with PDF_PATH = path: lines 14 and 27-28, and
\* the loop of line 30 takes the first query.
ProbeStart(path) ==
    /\ qpc \in {"idle", "done", "failed"}
    /\ probes < MaxProbes
    /\ probes' = probes + 1
    /\ PROBE_PDF_PATH' = path
    /\ qi' = 1
    /\ e' = <<>>
    /\ resp' = NoResp
    /\ hits' = <<>>
    /\ before' = shown
    /\ shown' = <<>>
    /\ qfailed' = ""
    /\ qpc' = IF queries = <<>> THEN "done" ELSE "embed"
    /\ UNCHANGED rpOthers

\* line 32: e = client.embeddings.create(model=EMBED_MODEL, input=q).data[0].embedding
ProbeEmbed ==
    /\ qpc = "embed"
    /\ e' = EmbedOf(queries[qi])
    /\ qpc' = "search"
    /\ UNCHANGED <<PROBE_PDF_PATH, qi, resp, hits, shown, before, probes, qfailed>>
    /\ UNCHANGED rpOthers

\* line 32 raises
ProbeEmbedFail ==
    /\ qpc = "embed"
    /\ qfailed' = "embed"
    /\ qpc' = "failed"
    /\ UNCHANGED <<PROBE_PDF_PATH, qi, e, resp, hits, shown, before, probes>>
    /\ UNCHANGED rpOthers

\* lines 35-54: the rpc, rows = resp.data or [], the report of the query ("(no
\* matches)" and continue, or one line per row), and the loop's next query
ProbeSearch ==
    /\ qpc = "search"
    /\ \E r \in Responses(match_documents(table, e, TOP_K, ProbeFilter(PROBE_PDF_PATH))) :
          /\ resp' = r
          /\ hits' = NextHits(hits, r)
    /\ shown' = Append(shown,
                    [query |-> queries[qi],
                     source |-> PROBE_PDF_PATH,
                     index |-> table,
                     report |-> IF hits' = <<>> THEN "(no matches)" ELSE "rows",
                     rows |-> hits'])
    /\ qi' = qi + 1
    /\ qpc' = IF qi + 1 > Len(queries) THEN "done" ELSE "embed"
    /\ UNCHANGED <<PROBE_PDF_PATH, e, before, probes, qfailed>>
    /\ UNCHANGED rpOthers

\* line 39 raises
ProbeSearchFail ==
    /\ qpc = "search"
    /\ qfailed' = "search"
    /\ qpc' = "failed"
    /\ UNCHANGED <<PROBE_PDF_PATH, qi, e, resp, hits, shown, before, probes>>
    /\ UNCHANGED rpOthers

ProbeStep ==
    \/ ProbeEmbed
    \/ ProbeEmbedFail
    \/ ProbeSearch
    \/ ProbeSearchFail

\* the rows a complete ingestion of the file under doc_id d stores
Ingested(path, d, c) ==
    LET built == BuildFrom(pdf_pages(path), 1, path, c)
        ins == [k \in 1..Len(built) |-> built[k].content]
        ms == [k \in 1..Len(built) |-> built[k].meta]
    IN  BagOfSeq(PrepareRows(d, ins, Embed(ins), ms))

\* What the index may hold when the probe is first run: nothing, rows of
\* earlier ingestions of another file, or a complete ingestion of a.pdf under
\* d2 beside a row of another file and document.
ProbeTables(c) ==
    InitialTables \cup
        { Ingested("a.pdf", "d2", c) (+) SetToBag({OldRow("d0", 0)}) }

\* The index, the settings of the ingestion and the probe, before either runs.
ProbeInit ==
    /\ chunking \in Chunkings
    /\ table \in ProbeTables(chunking)
    /\ BATCH_EMBED = MaxBatch
    /\ BATCH_INSERT \in BatchSizes
    /\ started = 0
    /\ pc = [p \in Procs |-> "idle"]
    /\ failed = [p \in Procs |-> ""]
    /\ PDF_PATH = [p \in Procs |-> ""]
    /\ DOC_ID = [p \in Procs |-> ""]
    /\ pages = [p \in Procs |-> <<>>]
    /\ inputs = [p \in Procs |-> <<>>]
    /\ metas = [p \in Procs |-> <<>>]
    /\ vectors = [p \in Procs |-> <<>>]
    /\ rows = [p \in Procs |-> <<>>]
    /\ ei = [p \in Procs |-> 0]
    /\ j = [p \in Procs |-> 0]
    /\ calls = [p \in Procs |-> <<>>]
    /\ peers = [p \in Procs |-> {}]
    /\ startRows = [p \in Procs |-> EmptyBag]
    /\ endRows = [p \in Procs |-> EmptyBag]
    /\ prev = [p \in Procs |-> NoRun]
    /\ ProbeIdle

\* The probe runs, and may be run again, while one ingestion of a.pdf under
\* d1 runs against the same index.
ProbeNext ==
    \/ \E path \in Paths : ProbeStart(path)
    \/ ProbeStep
    \/ started = 0 /\ Start("p1", "a.pdf", "d1")
    \/ Step("p1")

---------------------------------------------------------------------------
(* The normaliser on its own: clean_text applied once, then again *)

\* the normaliser is not called
CleanIdle ==
    /\ raw = <<>>
    /\ once = <<>>
    /\ twice = <<>>
    /\ npc = "idle"

CleanInit ==
    /\ raw \in SeqsUpTo(CleanAlphabet, CleanMaxLen)
    /\ once = <<>>
    /\ twice = <<>>
    /\ npc = "in"

CleanOnce ==
    /\ npc = "in"
    /\ once' = clean_text(raw)
    /\ npc' = "once"
    /\ UNCHANGED <<raw, twice>>
    /\ UNCHANGED ctOthers

CleanAgain ==
    /\ npc = "once"
    /\ twice' = clean_text(once)
    /\ npc' = "twice"
    /\ UNCHANGED <<raw, once>>
    /\ UNCHANGED ctOthers

CleanNext == CleanOnce \/ CleanAgain

InitClean == CleanInit /\ ChunkIdle /\ PipelineIdle /\ ProbeIdle

SpecClean == InitClean /\ [][CleanNext]_vars

---------------------------------------------------------------------------
(* The chunk builder on its own: one call of chunk_page_by_sentences *)

InitChunk == ChunkInit /\ CleanIdle /\ PipelineIdle /\ ProbeIdle

SpecChunk == InitChunk /\ [][ChunkNext]_vars

\* The loop is sequential code: once called it keeps running.
SpecChunkFair == InitChunk /\ [][ChunkNext]_vars /\ WF_vars(ChunkNext)

---------------------------------------------------------------------------
(* The pipeline *)

Init == PipelineInit /\ CleanIdle /\ ChunkIdle /\ ProbeIdle

\* runs of main() one after the other
Spec == Init /\ [][Next]_vars

\* two runs of main() at the same time against one table
SpecConcurrent == Init /\ [][ConcurrentNext]_vars

InitProbe == ProbeInit /\ CleanIdle /\ ChunkIdle

\* the probe beside an ingestion
SpecProbe == InitProbe /\ [][ProbeNext]_vars

---------------------------------------------------------------------------
(* Properties of the normaliser *)

\* C8: clean_text is idempotent: for every raw text over letters, space, tab,
\* line break, carriage return and hyphen, clean_text(clean_text(s)) equals
\* clean_text(s).
C8_NormalizeIdempotent == npc = "twice" => twice = once

---------------------------------------------------------------------------
(* Properties of the chunk builder *)

CeilDiv(a, b) == (a + b - 1) \div b

\* the windows that ended in a yield, in order
YieldedWindows == SelectSeq(settled, LAMBDA w : w.yielded)

\* C3 as stated: every chunk yielded has a token count <= max_tokens, for
\* every max_tokens >= 1.
C3_CeilingUnconditional ==
    max_tokens >= 1 =>
        \A k \in 1..Len(chunks) : TokenCount(chunks[k]) <= max_tokens

\* C3 amended: for every max_tokens >= 1, every chunk yielded has a token
\* count <= max_tokens or is made of exactly one sentence.
C3_CeilingUnlessSingleSentence ==
    max_tokens >= 1 =>
        \A k \in 1..Len(chunks) :
            \/ TokenCount(chunks[k]) <= max_tokens
            \/ Len(YieldedWindows[k].kept) = 1

\* a run that yielded a trimmed chunk within the ceiling and a single
\* sentence above it
C3_Witness ==
    /\ kpc = "done"
    /\ max_tokens >= 1
    /\ \E k \in 1..Len(chunks) :
          /\ Len(YieldedWindows[k].kept) = 1
          /\ TokenCount(chunks[k]) > max_tokens
    /\ \E k \in 1..Len(chunks) :
          /\ TokenCount(chunks[k]) <= max_tokens
          /\ \E v \in 1..Len(visited) :
                /\ visited[v].start = YieldedWindows[k].start
                /\ Len(YieldedWindows[k].kept) < Len(visited[v].window)

\* C4: no chunk yielded has a token count < min_tokens; a window whose
\* (possibly trimmed) token count is below min_tokens is discarded, and the
\* start index advances by step whether the window is yielded or discarded.
C4_TokenFloor ==
    /\ \A k \in 1..Len(chunks) : TokenCount(chunks[k]) >= min_tokens
    /\ \A k \in 1..Len(settled) :
          TokenCount(JoinSpace(settled[k].kept)) < min_tokens => ~settled[k].yielded
    /\ Len(chunks) = Len(YieldedWindows)
    /\ kpc = "loop" => i = Len(settled) * step
    /\ \A k \in 1..Len(settled) : settled[k].start = (k - 1) * step

\* a run that discarded a window and yielded a later one
C4_Witness ==
    /\ kpc = "done"
    /\ \E k \in 1..Len(settled) : \E m \in 1..Len(settled) :
          /\ k < m
          /\ ~settled[k].yielded
          /\ settled[m].yielded
          /\ Len(settled[k].kept) < Len(visited[k].window)

\* C9: with 0 <= overlap < sents_per_chunk and step = sents_per_chunk -
\* overlap, the builder visits exactly ceil(len(S)/step) candidate windows
\* before the min_tokens filter, and the k-th (from 0) is the sentences
\* S[k*step .. min(k*step + sents_per_chunk, len(S)) - 1] in order.
C9_WindowArithmetic ==
    (kpc \notin {"call", "idle"} /\ overlap < sents_per_chunk) =>
        LET st == sents_per_chunk - overlap
        IN  /\ Len(visited) <= CeilDiv(Len(sents), st)
            /\ kpc = "done" => Len(visited) = CeilDiv(Len(sents), st)
            /\ \A k \in 0..(Len(visited) - 1) :
                  /\ visited[k + 1].start = k * st
                  /\ visited[k + 1].window =
                        Slice(sents, k * st, Min(k * st + sents_per_chunk, Len(sents)))

\* a finished run with an overlap, at least three windows and a short last one
C9_Witness ==
    /\ kpc = "done"
    /\ overlap >= 1
    /\ overlap < sents_per_chunk
    /\ Len(visited) >= 3
    /\ Len(visited[Len(visited)].window) < sents_per_chunk
    /\ Len(visited[1].window) = sents_per_chunk

\* C10: for every sentence list and all parameter values the loop ends; the
\* start index strictly increases on every iteration that runs to its end;
\* the loop body is entered at most ceil(len(sentences)/step) times, step
\* being max(1, sents_per_chunk - overlap); an empty sentence list yields no
\* chunk.
C10_Termination ==
    /\ <>(kpc = "done")
    /\ [][(kpc = "trim" /\ kpc' = "loop") => i' > i]_vars
    /\ [](kpc \notin {"call", "idle"} =>
            iters <= CeilDiv(Len(sents), Max(1, sents_per_chunk - overlap)))
    /\ []((kpc = "done" /\ sents = <<>>) => chunks = <<>>)

\* a finished run whose step was clamped to 1 and whose windows were trimmed
C10_Witness ==
    /\ kpc = "done"
    /\ overlap >= sents_per_chunk
    /\ sents_per_chunk >= 2
    /\ iters = Len(sents)
    /\ iters >= 3
    /\ \E k \in 1..Len(settled) : Len(settled[k].kept) < Len(visited[k].window)

\* the length of the longest prefix of the window w whose token count is
\* <= maxT, 0 when no prefix fits
LongestFit(w, maxT) ==
    LET fits == {n \in 1..Len(w) : TokenCount(JoinSpace(SubSeq(w, 1, n))) <= maxT}
    IN  IF fits = {} THEN 0 ELSE CHOOSE n \in fits : \A m \in fits : m <= n

\* the token count does not decrease as sentences are appended to a window
Monotone(w) ==
    \A n \in 1..Len(w) : \A m \in n..Len(w) :
        TokenCount(JoinSpace(SubSeq(w, 1, n))) <= TokenCount(JoinSpace(SubSeq(w, 1, m)))

\* What every window is settled as, whatever the ceiling: whole sentences of
\* the page from the window's start on, joined by single spaces, and yielded
\* exactly when the kept part meets min_tokens.
WholeSentences ==
    /\ \A k \in 1..Len(settled) :
          LET kept == settled[k].kept
          IN  /\ Len(kept) >= 1
              /\ Len(kept) <= Len(visited[k].window)
              /\ kept = SubSeq(sents, settled[k].start + 1, settled[k].start + Len(kept))
              /\ settled[k].yielded <=> TokenCount(JoinSpace(kept)) >= min_tokens
    /\ \A m \in 1..Len(chunks) : chunks[m] = JoinSpace(YieldedWindows[m].kept)

\* C15 as stated: for each candidate window the chunk considered is the
\* longest prefix of the window's sentences whose token count is
\* <= max_tokens, or the first sentence alone when no prefix fits, for every
\* max_tokens; it is made of whole sentences and is yielded when it meets
\* min_tokens.
C15_LongestPrefixAnyCeiling ==
    /\ WholeSentences
    /\ \A k \in 1..Len(settled) :
          LET fit == LongestFit(visited[k].window, max_tokens)
          IN  Len(settled[k].kept) = IF fit = 0 THEN 1 ELSE fit

\* C15 amended: with max_tokens >= 1 the chunk considered for a window is the
\* longest prefix of its sentences whose token count is <= max_tokens, or the
\* first sentence alone when no prefix fits; with max_tokens = 0 the ceiling is
\* off and the chunk considered is the whole window.  The chunk is made of
\* whole sentences, and a single sentence above max_tokens is yielded whole
\* when it meets min_tokens.  (The token count does not decrease as sentences
\* are appended.)
C15_LongestPrefixUnlessCeilingOff ==
    /\ WholeSentences
    /\ \A k \in 1..Len(settled) :
          LET w == visited[k].window
              fit == LongestFit(w, max_tokens)
          IN  /\ max_tokens >= 1 => Len(settled[k].kept) = IF fit = 0 THEN 1 ELSE fit
              /\ max_tokens = 0 => settled[k].kept = w
              /\ (Len(w) = 1 /\ TokenCount(JoinSpace(w)) >= min_tokens)
                     => settled[k].yielded

\* a finished run in which a window of three sentences was cut to the two that
\* fit max_tokens exactly, and a single sentence above max_tokens was yielded
\* under a floor that is on
C15_Witness ==
    /\ kpc = "done"
    /\ max_tokens >= 1
    /\ min_tokens >= 1
    /\ \A k \in 1..Len(visited) : Monotone(visited[k].window)
    /\ \E k \in 1..Len(settled) :
          /\ Len(visited[k].window) = 3
          /\ Len(settled[k].kept) = 2
          /\ TokenCount(JoinSpace(settled[k].kept)) = max_tokens
    /\ \E k \in 1..Len(settled) :
          /\ Len(settled[k].kept) = 1
          /\ TokenCount(JoinSpace(settled[k].kept)) > max_tokens
          /\ settled[k].yielded

\* the 0-based indexes of the sentences the k-th settled window kept
KeptIndexes(k) == settled[k].start .. (settled[k].start + Len(settled[k].kept) - 1)

\* the 0-based indexes of the sentences of the k-th candidate window
WindowIndexes(k) == visited[k].start .. (visited[k].start + Len(visited[k].window) - 1)

\* every sentence of the page is in a chunk that was yielded
AllSentencesEmitted ==
    \A s \in 0..(Len(sents) - 1) :
        \E k \in 1..Len(settled) : settled[k].yielded /\ s \in KeptIndexes(k)

\* every chunk after the first begins with the sentences its window shares
\* with the window before it, and the chunk before it holds them
SharesWithPrevious ==
    \A k \in 1..(Len(settled) - 1) :
        /\ settled[k].yielded /\ settled[k + 1].yielded
        /\ settled[k + 1].start >= settled[k].start
        /\ Cardinality(KeptIndexes(k) \cap KeptIndexes(k + 1)) =
               Min(Len(visited[k].window) - step, Len(settled[k + 1].kept))

\* the start index advances by the fixed step whatever was trimmed, and every
\* sentence is in a candidate window
FixedStepWindows ==
    /\ \A k \in 1..Len(settled) : settled[k].start = (k - 1) * (sents_per_chunk - overlap)
    /\ \A s \in 0..(Len(sents) - 1) : \E k \in 1..Len(visited) : s \in WindowIndexes(k)

\* C19 as stated: with 0 <= overlap < sents_per_chunk and min_tokens = 0,
\* when the call is over every sentence of the page is in at least one chunk
\* yielded and every chunk begins with the sentences it shares with the one
\* before it, also when windows were trimmed to fit max_tokens.
C19_CoverageAlsoWhenTrimmed ==
    (kpc = "done" /\ overlap < sents_per_chunk /\ min_tokens = 0) =>
        /\ FixedStepWindows
        /\ AllSentencesEmitted
        /\ SharesWithPrevious

\* C19 amended: with 0 <= overlap < sents_per_chunk and min_tokens = 0, the
\* start index advances by the fixed step whatever was trimmed and every
\* sentence is in a candidate window; when no window was trimmed, every
\* sentence of the page is in at least one chunk yielded and every chunk
\* begins with the sentences it shares with the one before it.
C19_CoverageWhenUntrimmed ==
    (kpc = "done" /\ overlap < sents_per_chunk /\ min_tokens = 0) =>
        /\ FixedStepWindows
        /\ (\A k \in 1..Len(settled) : settled[k].kept = visited[k].window)
               => (AllSentencesEmitted /\ SharesWithPrevious)

\* a finished run with an overlap and a ceiling that is on, three or more
\* windows none of which was trimmed, the first full and the last short
C19_Witness ==
    /\ kpc = "done"
    /\ min_tokens = 0
    /\ max_tokens >= 1
    /\ overlap >= 1
    /\ overlap < sents_per_chunk
    /\ Len(settled) >= 3
    /\ \A k \in 1..Len(settled) : settled[k].kept = visited[k].window
    /\ Len(visited[1].window) = sents_per_chunk
    /\ Len(visited[Len(visited)].window) < sents_per_chunk

---------------------------------------------------------------------------
(* Properties of the pipeline *)

\* no row twice, and no two rows with the same (doc_id, chunk_index)
NoDuplicates(b) ==
    /\ \A r \in DOMAIN b : b[r] = 1
    /\ \A r1, r2 \in DOMAIN b :
          (r1.doc_id = r2.doc_id /\ r1.chunk_index = r2.chunk_index) => r1 = r2

\* no run with the same DOC_ID overlapped the current run of p
Undisturbed(p) == DOC_ID[p] \notin peers[p]

CallsOf(p, o) == SelectSeq(calls[p], LAMBDA c : c.op = o)

\* the rows a run with this file and doc_id builds when nothing fails
ExpectedRows(path, d) ==
    LET built == BuildFrom(pdf_pages(path), 1, path, chunking)
        ins == [k \in 1..Len(built) |-> built[k].content]
        ms == [k \in 1..Len(built) |-> built[k].meta]
    IN  PrepareRows(d, ins, Embed(ins), ms)

\* C1: after two complete runs, one after the other, with the same doc_id
\* and the same source, the rows of the doc_id are those after the first of
\* the two, whatever the table held before, and no (doc_id, chunk_index)
\* occurs twice; within a run the delete comes before every insert.
C1_IdempotentReingest ==
    \A p \in Procs :
        /\ (/\ pc[p] = "done"
            /\ Undisturbed(p)
            /\ prev[p].ok
            /\ prev[p].path = PDF_PATH[p]
            /\ prev[p].doc_id = DOC_ID[p])
           => (endRows[p] = prev[p].rows /\ NoDuplicates(endRows[p]))
        /\ \A k \in 1..Len(calls[p]) :
              calls[p][k].op = "insert" =>
                  \E m \in 1..(k - 1) : calls[p][m].op = "delete" /\ calls[p][m].ok

\* a second complete run of the same file under the same doc_id, over a table
\* that held rows of that doc_id before the first run
C1_Witness ==
    \E p \in Procs :
        /\ pc[p] = "done"
        /\ prev[p].ok
        /\ prev[p].path = PDF_PATH[p]
        /\ prev[p].doc_id = DOC_ID[p]
        /\ BagCardinality(endRows[p]) >= 3
        /\ BagCardinality(startRows[p]) >= 3
        /\ Len(CallsOf(p, "insert")) >= 2

\* C2: after a successful run that built N chunks, the doc_id has exactly N
\* rows and their chunk_index values are exactly 0 .. N-1, none missing and
\* none twice, for every BATCH_EMBED and BATCH_INSERT >= 1.
C2_IndexContiguity ==
    \A p \in Procs :
        (pc[p] = "done" /\ Undisturbed(p)) =>
            /\ BagCardinality(endRows[p]) = Len(inputs[p])
            /\ {r.chunk_index : r \in DOMAIN endRows[p]} = 0..(Len(inputs[p]) - 1)
            /\ NoDuplicates(endRows[p])

\* a successful run of three or more chunks whose last insert batch is short,
\* over a table that held rows of the doc_id
C2_Witness ==
    \E p \in Procs :
        /\ pc[p] = "done"
        /\ Len(inputs[p]) = 3
        /\ BATCH_INSERT = 2
        /\ BATCH_EMBED = 1
        /\ BagCardinality(startRows[p]) >= 3
        /\ BagCardinality(endRows[p]) = 3

\* C5: if reading the source fails, the run ends in error with the rows of
\* the doc_id as they were before the run, no delete and no insert issued.
C5_ExtractionFailsBeforeDelete ==
    \A p \in Procs :
        failed[p] = "extraction" =>
            /\ \A k \in 1..Len(calls[p]) : calls[p][k].op \notin {"delete", "insert"}
            /\ Undisturbed(p) => endRows[p] = startRows[p]

\* C6: for n chunks and BATCH_EMBED = b, the embedding service is called
\* ceil(n/b) times with consecutive slices of at most b texts, the
\* concatenated result has length n, and the row with chunk_index i carries
\* inputs[i], metas[i] and the vector returned for inputs[i].
C6_BatchedEmbedding ==
    \A p \in Procs :
        LET n == Len(inputs[p])
            b == BATCH_EMBED
            E == CallsOf(p, "embed")
        IN  /\ pc[p] \in {"upload", "done"} =>
                  /\ Len(E) = CeilDiv(n, b)
                  /\ \A k \in 1..Len(E) :
                        /\ Len(E[k].arg) <= b
                        /\ E[k].arg = Slice(inputs[p], (k - 1) * b, Min(k * b, n))
                        /\ Len(E[k].ret) = Len(E[k].arg)
                  /\ Len(vectors[p]) = n
            /\ (pc[p] = "done" /\ Undisturbed(p)) =>
                  \A idx \in 0..(n - 1) :
                      \E r \in DOMAIN endRows[p] :
                          /\ r.chunk_index = idx
                          /\ r.content = inputs[p][idx + 1]
                          /\ r.metadata = metas[p][idx + 1]
                          /\ r.embedding = E[(idx \div b) + 1].ret[(idx % b) + 1]
                          /\ \A r2 \in DOMAIN endRows[p] : r2.chunk_index = idx => r2 = r

\* a successful run of three chunks embedded in batches of two and one
C6_Witness ==
    \E p \in Procs :
        /\ pc[p] = "done"
        /\ Len(inputs[p]) = 3
        /\ BATCH_EMBED = 2
        /\ Len(CallsOf(p, "embed")) = 2
        /\ Len(CallsOf(p, "embed")[2].arg) = 1
        /\ BagCardinality(endRows[p]) = 3

\* C7: two runs with different doc_ids whose calls interleave in any order:
\* when both are complete, each doc_id has exactly the rows its run builds
\* alone.
C7_DistinctDocIdsIndependent ==
    (/\ \A q \in Procs : pc[q] = "done"
     /\ DOC_ID["p1"] # DOC_ID["p2"])
    => \A p \in Procs :
           RowsOf(table, DOC_ID[p]) = BagOfSeq(ExpectedRows(PDF_PATH[p], DOC_ID[p]))

\* two complete runs with different doc_ids that overlapped, each of two or
\* more rows, over a table that held rows of both doc_ids
C7_Witness ==
    /\ \A q \in Procs : pc[q] = "done" /\ peers[q] # {} /\ Len(rows[q]) >= 2
    /\ DOC_ID["p1"] # DOC_ID["p2"]
    /\ \A q \in Procs : BagCardinality(startRows[q]) >= 1

\* the calls of a log that were made with operation o and returned
Succeeded(log, o) == SelectSeq(log, LAMBDA c : c.op = o /\ c.ok)

\* C13: if an embedding batch call fails, the run aborts with no row of the
\* doc_id in the table: the rows it had are deleted and no insert was issued,
\* every insert coming after all embedding batches have succeeded; a complete
\* run after it leaves the full chunk set.
C13_EmbeddingFailureLeavesEmpty ==
    \A p \in Procs :
        /\ failed[p] = "embedding" =>
              /\ pc[p] = "failed"
              /\ Len(Succeeded(calls[p], "delete")) = 1
              /\ CallsOf(p, "insert") = <<>>
              /\ Undisturbed(p) =>
                    (endRows[p] = EmptyBag /\ RowsOf(table, DOC_ID[p]) = EmptyBag)
        /\ \A k \in 1..Len(calls[p]) :
              calls[p][k].op = "insert" =>
                  /\ Len(Succeeded(SubSeq(calls[p], 1, k - 1), "embed"))
                         = CeilDiv(Len(inputs[p]), BATCH_EMBED)
                  /\ \A m \in 1..(k - 1) : calls[p][m].ok
        /\ (/\ pc[p] = "done"
            /\ Undisturbed(p)
            /\ prev[p].failed = "embedding"
            /\ prev[p].doc_id = DOC_ID[p])
           => /\ startRows[p] = EmptyBag
              /\ endRows[p] = BagOfSeq(ExpectedRows(PDF_PATH[p], DOC_ID[p]))
              /\ BagCardinality(endRows[p]) = Len(inputs[p])

\* a complete run of three chunks after a run of the same file and doc_id
\* whose delete removed three or more rows and whose second embedding batch
\* failed
C13_Witness ==
    \E p \in Procs :
        /\ pc[p] = "done"
        /\ prev[p].failed = "embedding"
        /\ prev[p].doc_id = DOC_ID[p]
        /\ prev[p].path = PDF_PATH[p]
        /\ Len(Succeeded(prev[p].calls, "embed")) >= 1
        /\ Succeeded(prev[p].calls, "delete")[1].ret[1] >= 3
        /\ prev[p].rows = EmptyBag
        /\ BagCardinality(endRows[p]) = 3

\* C14: a run reports "Done" only when every chunk it built is in the table;
\* if the k-th insert batch (from 0) fails, the run ends in error with exactly
\* the rows of the batches 0 .. k-1 in the table, a prefix by chunk_index; a
\* complete run after it, starting with its delete, leaves the full set and
\* no duplicates.
C14_NoPartialSuccess ==
    \A p \in Procs :
        /\ (pc[p] = "done" /\ Undisturbed(p)) =>
              /\ failed[p] = ""
              /\ \A k \in 1..Len(calls[p]) : calls[p][k].ok
              /\ Len(rows[p]) = Len(inputs[p])
              /\ endRows[p] = BagOfSeq(rows[p])
        /\ (failed[p] = "persistence" /\ Undisturbed(p)) =>
              LET k == Len(Succeeded(calls[p], "insert"))
                  n == k * BATCH_INSERT
              IN  /\ pc[p] = "failed"
                  /\ n < Len(rows[p])
                  /\ calls[p][Len(calls[p])] =
                         Call("insert", IndexesOf(Batch(rows[p], n, BATCH_INSERT)), <<>>, FALSE)
                  /\ endRows[p] = BagOfSeq(SubSeq(rows[p], 1, n))
                  /\ {r.chunk_index : r \in DOMAIN endRows[p]} = 0..(n - 1)
                  /\ RowsOf(table, DOC_ID[p]) = endRows[p]
        /\ (/\ pc[p] = "done"
            /\ Undisturbed(p)
            /\ prev[p].failed = "persistence"
            /\ prev[p].doc_id = DOC_ID[p])
           => /\ startRows[p] = prev[p].rows
              /\ Len(Succeeded(calls[p], "delete")) = 1
              /\ endRows[p] = BagOfSeq(ExpectedRows(PDF_PATH[p], DOC_ID[p]))
              /\ NoDuplicates(endRows[p])

\* a complete run of three chunks after a run of the same file and doc_id
\* whose second insert batch failed, leaving the rows of the first
C14_Witness ==
    \E p \in Procs :
        /\ pc[p] = "done"
        /\ prev[p].failed = "persistence"
        /\ prev[p].doc_id = DOC_ID[p]
        /\ prev[p].path = PDF_PATH[p]
        /\ Len(Succeeded(prev[p].calls, "insert")) = 1
        /\ BagCardinality(prev[p].rows) >= 1
        /\ BagCardinality(prev[p].rows) < 3
        /\ startRows[p] = prev[p].rows
        /\ BagCardinality(endRows[p]) = 3

\* content is a contiguous run of the sentences ss, joined by single spaces
IsRunOf(content, ss) ==
    \E a \in 1..Len(ss) : \E b \in a..Len(ss) : content = JoinSpace(SubSeq(ss, a, b))

\* the normalised text of page number n (from 1) of a file
PageText(path, n) == clean_text(Files[path][n])

\* the contents of the rows rs that carry page number n, in the order of rs
ContentsOfPage(rs, n) ==
    LET ofPage == SelectSeq(rs, LAMBDA r : r.metadata.page = n)
    IN  [k \in 1..Len(ofPage) |-> ofPage[k].content]

\* C16: every chunk of a run is a contiguous run of sentences of one page of
\* the file and its metadata.page is that page's number from 1; a page whose
\* normalised text is empty gives no chunk and takes no chunk_index; a smaller
\* chunk_index means a page number that is less or equal, and within a page
\* chunk_index follows the order of the windows; the rows persisted by a
\* complete run are these.
C16_PageScopingAndOrder ==
    \A p \in Procs :
        LET rs == rows[p]
            path == PDF_PATH[p]
        IN  /\ \A k \in 1..Len(rs) :
                  LET n == rs[k].metadata.page
                  IN  /\ n \in 1..Len(Files[path])
                      /\ PageText(path, n) # <<>>
                      /\ IsRunOf(rs[k].content, split_sentences(PageText(path, n)))
                      /\ rs[k].metadata.source = path
                      /\ rs[k].chunk_index = k - 1
            /\ \A k \in 1..Len(rs) : \A m \in 1..Len(rs) :
                  rs[k].chunk_index < rs[m].chunk_index
                      => rs[k].metadata.page <= rs[m].metadata.page
            /\ pc[p] \in {"upload", "done"} =>
                  \A n \in 1..Len(Files[path]) :
                      ContentsOfPage(rs, n) =
                          IF PageText(path, n) = <<>> THEN <<>>
                          ELSE chunk_page_by_sentences(PageText(path, n),
                                   chunking.sents_per_chunk, chunking.overlap,
                                   chunking.max_tokens, chunking.min_tokens)
            /\ (pc[p] = "done" /\ Undisturbed(p)) => endRows[p] = BagOfSeq(rs)

\* a complete run over a file whose first page gives two chunks, whose second
\* page is blank and whose third page gives the chunk with chunk_index 2
C16_Witness ==
    \E p \in Procs :
        /\ pc[p] = "done"
        /\ Len(rows[p]) = 3
        /\ rows[p][1].metadata.page = 1
        /\ rows[p][2].metadata.page = 1
        /\ rows[p][3].metadata.page = 3
        /\ PageText(PDF_PATH[p], 2) = <<>>
        /\ Files[PDF_PATH[p]][2] # <<>>
        /\ BagCardinality(endRows[p]) = 3

\* how many rows the delete of the run of p removed
DeletedBy(p) == Succeeded(calls[p], "delete")[1].ret[1]

\* both runs are complete, with the same doc_id and the same file
SameDocRuns ==
    /\ \A q \in Procs : pc[q] = "done"
    /\ DOC_ID["p1"] = DOC_ID["p2"]
    /\ PDF_PATH["p1"] = PDF_PATH["p2"]

\* Both deletes were executed before either run's first insert: the two
\* deletes removed no more than the rows the doc_id had before the runs (p1
\* starts first), so neither removed a row that a run had inserted.
BothDeletesFirst ==
    DeletedBy("p1") + DeletedBy("p2") = BagCardinality(startRows["p1"])

\* C12: two runs with the same doc_id and the same file at the same time:
\* when both are complete the table holds every row of the document once or
\* twice, and if both deletes were executed before either run's inserts it
\* holds every row twice, so that a (doc_id, chunk_index) occurs twice.
C12_SameDocIdRace ==
    SameDocRuns =>
        LET d == DOC_ID["p1"]
            expected == BagOfSeq(ExpectedRows(PDF_PATH["p1"], d))
            cur == RowsOf(table, d)
        IN  /\ DOMAIN cur = DOMAIN expected
            /\ \A r \in DOMAIN cur : cur[r] \in {1, 2}
            /\ BothDeletesFirst =>
                  /\ cur = expected (+) expected
                  /\ rows["p1"] # <<>> => ~NoDuplicates(cur)

\* two complete runs of the same file under the same doc_id, of two or more
\* chunks, over a table that held rows of the doc_id, whose deletes both came
\* before the first insert: every (doc_id, chunk_index) is there twice
C12_Witness ==
    /\ SameDocRuns
    /\ BothDeletesFirst
    /\ Len(rows["p1"]) >= 2
    /\ BagCardinality(startRows["p1"]) >= 1
    /\ \A q \in Procs : peers[q] = {DOC_ID[q]}
    /\ \A r \in DOMAIN RowsOf(table, DOC_ID["p1"]) : table[r] = 2
    /\ ~NoDuplicates(table)

\* process p takes the step
Moves(p) ==
    \/ pc'[p] # pc[p]
    \/ calls'[p] # calls[p]
    \/ ei'[p] # ei[p]
    \/ j'[p] # j[p]

\* C17: no step of a run with doc_id d deletes, inserts or changes a row whose
\* doc_id is not d, whether the run goes on to complete or to abort.
C17_IngestionFrame ==
    [][\A p \in Procs :
          Moves(p) => DeleteDoc(table', DOC_ID'[p]) = DeleteDoc(table, DOC_ID'[p])]_vars

\* a run that aborted after it had deleted and inserted rows of its doc_id,
\* beside a complete run of the other doc_id, over a table that held rows of
\* both
C17_Witness ==
    \E p \in Procs : \E q \in Procs \ {p} :
        /\ failed[p] = "persistence"
        /\ BagCardinality(startRows[p]) >= 1
        /\ BagCardinality(endRows[p]) >= 1
        /\ pc[q] = "done"
        /\ DOC_ID[q] # DOC_ID[p]
        /\ DOC_ID[q] \in peers[p]
        /\ BagCardinality(startRows[q]) >= 1
        /\ RowsOf(table, DOC_ID[q]) = BagOfSeq(rows[q])
        /\ rows[q] # <<>>

---------------------------------------------------------------------------
(* Properties of the retrieval probe *)

\* the row returned is a row of the index
IsRowOf(found, index) ==
    \E x \in DOMAIN index :
        /\ x.content = found.content
        /\ x.metadata = found.metadata
        /\ x.chunk_index = found.chunk_index

\* C11: every row the probe obtains for a query is a row of the index whose
\* metadata.source is the filter's source, at most TOP_K rows are obtained,
\* and a query that no row matches gives an empty result, reported as "(no
\* matches)", after which the probe goes on to the next query: only a call
\* that raises ends the probe in error.
C11_FilteredRetrieval ==
    /\ \A k \in 1..Len(shown) :
          /\ Len(shown[k].rows) <= TOP_K
          /\ \A m \in 1..Len(shown[k].rows) :
                /\ shown[k].rows[m].metadata.source = shown[k].source
                /\ IsRowOf(shown[k].rows[m], shown[k].index)
          /\ shown[k].rows = <<>> <=> shown[k].report = "(no matches)"
          /\ (\A x \in DOMAIN shown[k].index : x.metadata.source # shown[k].source)
                 => shown[k].rows = <<>>
    /\ qpc = "failed" <=> qfailed # ""
    /\ qpc \in {"embed", "search", "failed"} => Len(shown) = qi - 1
    /\ qpc = "done" => Len(shown) = Len(queries)

\* a run of the probe that found no match for any query and ended without
\* error, and then a run that, over an index that held more than TOP_K rows
\* of its source beside a row of another source, obtained TOP_K rows
C11_Witness ==
    /\ qpc = "done"
    /\ Len(before) = Len(queries)
    /\ \A k \in 1..Len(before) : before[k].report = "(no matches)"
    /\ \E k \in 1..Len(before) : before[k].index # EmptyBag
    /\ \E k \in 1..Len(shown) :
          /\ Len(shown[k].rows) = TOP_K
          /\ BagCardinality(Candidates(shown[k].index, ProbeFilter(shown[k].source))) > TOP_K
          /\ \E x \in DOMAIN shown[k].index : x.metadata.source # shown[k].source

\* the probe takes the step
ProbeMoves ==
    \/ qpc' # qpc
    \/ qi' # qi
    \/ probes' # probes

\* the reports of one query, one source and one index
SameQuestion(a, b) ==
    /\ a.query = b.query
    /\ a.source = b.source
    /\ a.index = b.index

\* C18: no step of the probe changes the index, and two reports of the same
\* query over the same index, in one run of the probe or in two, hold the
\* same ranked rows.
C18_RetrievalMutatesNothing ==
    /\ [][ProbeMoves => table' = table]_vars
    /\ [](\A k \in 1..Len(shown) :
            /\ \A m \in 1..Len(shown) :
                  SameQuestion(shown[k], shown[m]) => shown[k].rows = shown[m].rows
            /\ \A m \in 1..Len(before) :
                  SameQuestion(shown[k], before[m]) => shown[k].rows = before[m].rows)

\* a run of the probe that asked the same query twice over the same index and
\* got the same rows, and asked it again after the ingestion had changed the
\* index and got other rows
C18_Witness ==
    /\ qpc = "done"
    /\ Len(before) = Len(queries)
    /\ SameQuestion(shown[1], before[1])
    /\ shown[1].rows # <<>>
    /\ shown[1].rows = before[1].rows
    /\ shown[3].query = shown[1].query
    /\ shown[3].index # shown[1].index
    /\ shown[3].rows # shown[1].rows

=============================================================================
